---------------------------- MODULE Spec2Model ----------------------------
(***************************************************************************)
(* Motion-clip pipeline of secam: MotionDetector (motion_detector.py) and  *)
(* VideoProcessor (video_processor.py).                                    *)
(*                                                                         *)
(* Units.  Frame indices and frame counts are integers.  Durations         *)
(* (merge_gap, padding_before, padding_after) are held in tenths of a      *)
(* second and fps is an integer, so int(seconds * fps) is                  *)
(* (tenths * fps) \div 10.                                                 *)
(*                                                                         *)
(* Images.  A decoded frame is a FrameW x FrameH grid of grey levels (the  *)
(* result of cvtColor + GaussianBlur), one grid per scene of Scenes.       *)
(***************************************************************************)
EXTENDS Integers, Sequences, FiniteSets, TLC

\* ------------------------------------------------------------------ bounds
\* Most frames one source delivers to the analysis loop.
MaxFrames == 5
\* Videos returned by get_video_files.
NumVideos == 2
\* Longest segment list and largest frame index handed to merge_ranges alone.
MaxLen == 3
MaxIdx == 3

\* --------------------------------------------------------- program values
\* MotionDetector(threshold, min_contour_area, sensitivity); the sensitivity
\* 0.01 is held as a percentage, the area minimum is scaled to the grid.
threshold == 25
min_contour_area == 1
sensitivity_pct == 1
\* cv2.dilate(thresh, None, iterations=2): 3x3 kernel applied twice.
dilate_iterations == 2
\* current_motion_start = None
NoStart == -1
\* Frame geometry (gray.shape): h, w.
FrameW == 3
FrameH == 2

Scenes == 0 .. 1
FpsValues == {0, 1}
FrameSkips == {1, 2}
GapChoices == {0, 20}
PadChoices == {0, 10}
\* Rectangles handed to the pipeline: the left 2x2 block, the right column
\* (1 pixel wide after clamping, corners given in reverse), one that is empty
\* after clamping.
Rois == { <<0, 0, 2, 2>>, <<5, 2, 2, 0>>, <<3, 0, 7, 2>> }
\* CAP_PROP_FRAME_COUNT as the container reports it; it need not be the
\* number of frames the decoder delivers.
ReportedTotals == {0, 2, MaxFrames}
\* Frames the source still delivers after the seek of export_clip.
AvailChoices == {1, MaxFrames}

Min(a, b) == IF a <= b THEN a ELSE b
Max(a, b) == IF a >= b THEN a ELSE b

\* Variant that rounds up.
SecondsToFramesCeil(tenths, fps) == (tenths * fps + 9) \div 10

\* int(seconds * fps) for seconds >= 0 given in tenths.
SecondsToFrames(tenths, fps) == (tenths * fps) \div 10

\* --------------------------------------------------------- _merge_ranges
\* sorted(ranges, key=lambda x: x[0]) is stable: x goes after every element
\* whose start is <= its own.
SortedInsert(sorted, x) ==
    LET k == Cardinality({i \in 1 .. Len(sorted) : sorted[i][1] <= x[1]})
    IN  SubSeq(sorted, 1, k) \o <<x>> \o SubSeq(sorted, k + 1, Len(sorted))

\* Variant that leaves the list in its input order.
SortByStartIdentity(ranges) == ranges

RECURSIVE SortByStart(_)
SortByStart(ranges) ==
    IF ranges = <<>> THEN <<>>
    ELSE SortedInsert(SortByStart(SubSeq(ranges, 1, Len(ranges) - 1)),
                      ranges[Len(ranges)])

\* Off-by-one variant of the merge test: "<" for "<=".
MergeStepStrict(merged, seg, gap_frames) ==
    LET last == merged[Len(merged)]
    IN  IF seg[1] - last[2] < gap_frames
        THEN [merged EXCEPT ![Len(merged)] = <<last[1], Max(last[2], seg[2])>>]
        ELSE Append(merged, seg)

\* Variant that overwrites the end instead of taking the maximum.
MergeStepNoMax(merged, seg, gap_frames) ==
    LET last == merged[Len(merged)]
    IN  IF seg[1] - last[2] <= gap_frames
        THEN [merged EXCEPT ![Len(merged)] = <<last[1], seg[2]>>]
        ELSE Append(merged, seg)

\* Variant that measures the gap as the number of frames strictly between
\* the two segments.
MergeStepFramesBetween(merged, seg, gap_frames) ==
    LET last == merged[Len(merged)]
    IN  IF seg[1] - last[2] - 1 <= gap_frames
        THEN [merged EXCEPT ![Len(merged)] = <<last[1], Max(last[2], seg[2])>>]
        ELSE Append(merged, seg)

\* One iteration of the for loop, lines 266-273.
MergeStep(merged, seg, gap_frames) ==
    LET last == merged[Len(merged)]
    IN  IF seg[1] - last[2] <= gap_frames
        THEN [merged EXCEPT ![Len(merged)] = <<last[1], Max(last[2], seg[2])>>]
        ELSE Append(merged, seg)

RECURSIVE MergeSweep(_, _, _)
MergeSweep(merged, rest, gap_frames) ==
    IF rest = <<>> THEN merged
    ELSE MergeSweep(MergeStep(merged, rest[1], gap_frames), Tail(rest), gap_frames)

\* Variant of the sweep that never flushes its last segment.
MergeNoFinalFlush(ranges, fps, gap_tenths) ==
    IF ranges = <<>> THEN <<>>
    ELSE LET gap_threshold_frames == SecondsToFrames(gap_tenths, fps)
             sorted_ranges == SortByStart(ranges)
             swept == MergeSweep(<<sorted_ranges[1]>>, Tail(sorted_ranges),
                                 gap_threshold_frames)
         IN  SubSeq(swept, 1, Len(swept) - 1)

\* Lines 256-275.
merge_ranges(ranges, fps, gap_tenths) ==
    IF ranges = <<>> THEN <<>>
    ELSE LET gap_threshold_frames == SecondsToFrames(gap_tenths, fps)
             sorted_ranges == SortByStart(ranges)
         IN  MergeSweep(<<sorted_ranges[1]>>, Tail(sorted_ranges),
                        gap_threshold_frames)


\* --------------------------------------------------------- detect_motion
\* previous_frame = None
NoFrame == [w |-> 0, h |-> 0, px |-> <<>>]

\* Grey level of pixel (x, y), 0-based, of a decoded and blurred frame:
\* scene 0 is the empty view, scene 1 has an object in column 0, any other
\* scene is the empty view under a lighting drift smaller than the threshold.
Gray(sc, x, y) ==
    CASE sc = 0 -> 0
      [] sc = 1 -> IF x = 0 THEN 100 ELSE 0
      [] OTHER  -> 20

\* Variant that orders the x coordinates only.
NormalizeRoiXOnly(roi) ==
    [x1 |-> Min(roi[1], roi[3]), y1 |-> roi[2],
     x2 |-> Max(roi[1], roi[3]), y2 |-> roi[4]]

\* Lines 67-72: order the corners.
NormalizeRoi(roi) ==
    [x1 |-> Min(roi[1], roi[3]), y1 |-> Min(roi[2], roi[4]),
     x2 |-> Max(roi[1], roi[3]), y2 |-> Max(roi[2], roi[4])]

\* Lines 74-76: clamp to the frame.
ClampRoi(r, w, h) ==
    [x1 |-> Max(0, r.x1), y1 |-> Max(0, r.y1),
     x2 |-> Min(w, r.x2), y2 |-> Min(h, r.y2)]

\* Off-by-one variant of the test: "<" for "<=".
DegenerateStrict(r) == r.x2 < r.x1 \/ r.y2 < r.y1

\* Line 78.
Degenerate(r) == r.x2 <= r.x1 \/ r.y2 <= r.y1

\* gray[y1:y2, x1:x2]
Crop(sc, r) ==
    [w  |-> r.x2 - r.x1,
     h  |-> r.y2 - r.y1,
     px |-> [j \in 1 .. (r.y2 - r.y1) |->
                [i \in 1 .. (r.x2 - r.x1) |->
                    Gray(sc, r.x1 + i - 1, r.y1 + j - 1)]]]

Abs(n) == IF n < 0 THEN -n ELSE n

\* absdiff + threshold(THRESH_BINARY): the pixels whose difference exceeds
\* the threshold.
ThreshMask(a, b) ==
    {p \in (1 .. a.w) \X (1 .. a.h) :
        Abs(a.px[p[2]][p[1]] - b.px[p[2]][p[1]]) > threshold}

\* dilate with the 3x3 kernel, n iterations: every pixel within Chebyshev
\* distance n of a set pixel.
Dilate(mask, w, h, n) ==
    {p \in (1 .. w) \X (1 .. h) :
        \E q \in mask : Abs(p[1] - q[1]) <= n /\ Abs(p[2] - q[2]) <= n}

\* findContours(RETR_EXTERNAL) + contourArea.  On grids this small the
\* dilated mask is one filled rectangle; the area of the contour through
\* the centres of its border pixels is (bw - 1) * (bh - 1).
ContourAreas(mask) ==
    IF mask = {} THEN {}
    ELSE LET xs == {p[1] : p \in mask}
             ys == {p[2] : p \in mask}
             bw == Cardinality(xs)
             bh == Cardinality(ys)
         IN  {(bw - 1) * (bh - 1)}

\* Variant that replaces the reference only when it reports motion.
ScoreKeepsStillReference(prev, roi_gray) ==
    LET thresh == Dilate(ThreshMask(prev, roi_gray), roi_gray.w, roi_gray.h,
                         dilate_iterations)
        motion_pixels == Cardinality(thresh)
        total_pixels  == roi_gray.w * roi_gray.h
        significant_motion == \E a \in ContourAreas(thresh) : a >= min_contour_area
        motion_detected == significant_motion
                           /\ motion_pixels * 100 >= sensitivity_pct * total_pixels
    IN  [detected |-> motion_detected,
         num  |-> motion_pixels,
         den  |-> total_pixels,
         prev |-> IF motion_detected THEN roi_gray ELSE prev]

\* Lines 102-132 and 161-164: score the crop against the reference.
Score(prev, roi_gray) ==
    LET thresh == Dilate(ThreshMask(prev, roi_gray), roi_gray.w, roi_gray.h,
                         dilate_iterations)
        motion_pixels == Cardinality(thresh)
        total_pixels  == roi_gray.w * roi_gray.h
        significant_motion == \E a \in ContourAreas(thresh) : a >= min_contour_area
    IN  [detected |-> significant_motion
                      /\ motion_pixels * 100 >= sensitivity_pct * total_pixels,
         num  |-> motion_pixels,
         den  |-> total_pixels,
         prev |-> roi_gray]

\* Variant of the seeding branch that scores the seeding frame as motion.
SeedSignals(roi_gray) ==
    [detected |-> TRUE, num |-> 0, den |-> 1, prev |-> roi_gray]

\* Lines 86-100: no reference, or a reference of another shape.
Seed(roi_gray) ==
    [detected |-> FALSE, num |-> 0, den |-> 1, prev |-> roi_gray]

\* Variant of the degenerate branch that keeps the reference.
NoRegionKeeps(prev) ==
    [detected |-> FALSE, num |-> 0, den |-> 1, prev |-> prev]

\* Lines 78-80: nothing to compare.
NoRegion(prev) ==
    [detected |-> FALSE, num |-> 0, den |-> 1, prev |-> NoFrame]

detect_motion(prev, sc, roi) ==
    LET r == ClampRoi(NormalizeRoi(roi), FrameW, FrameH)
    IN  IF Degenerate(r) THEN NoRegion(prev)
        ELSE LET roi_gray == Crop(sc, r)
             IN  IF prev = NoFrame THEN Seed(roi_gray)
                 ELSE IF <<prev.h, prev.w>> # <<roi_gray.h, roi_gray.w>>
                      THEN Seed(roi_gray)
                      ELSE Score(prev, roi_gray)

\* Variant of reset() that keeps the reference of the previous video.
ResetKeeps(prev) == prev

\* reset(): the new value of previous_frame.
Reset(prev) == NoFrame

\* ------------------------------------------------------- segment tracker
\* Variant that scores every frame.
SampledAlways(count, skip) == TRUE

\* Line 212: process every Nth frame.
Sampled(count, skip) == count % skip = 0

\* Variant that closes a segment at the sampled frame itself.
TrackEndsAtCurrent(start, ranges, detected, idx) ==
    IF detected
    THEN [start |-> IF start = NoStart THEN idx ELSE start, ranges |-> ranges]
    ELSE IF start # NoStart
         THEN [start |-> NoStart, ranges |-> Append(ranges, <<start, idx>>)]
         ELSE [start |-> start, ranges |-> ranges]

\* Variant that opens a segment on any sampled frame.
TrackOpensAlways(start, ranges, detected, idx) ==
    [start |-> IF start = NoStart THEN idx ELSE start, ranges |-> ranges]

\* Variant that leaves the segment open after emitting it.
TrackKeepsOpen(start, ranges, detected, idx) ==
    IF detected
    THEN [start |-> IF start = NoStart THEN idx ELSE start, ranges |-> ranges]
    ELSE IF start # NoStart
         THEN [start |-> start, ranges |-> Append(ranges, <<start, idx - 1>>)]
         ELSE [start |-> start, ranges |-> ranges]

\* Variant that opens a segment at the index after the sampled frame.
TrackOpensAtNext(start, ranges, detected, idx) ==
    IF detected
    THEN [start |-> IF start = NoStart THEN idx + 1 ELSE start, ranges |-> ranges]
    ELSE IF start # NoStart
         THEN [start |-> NoStart, ranges |-> Append(ranges, <<start, idx - 1>>)]
         ELSE [start |-> start, ranges |-> ranges]

\* Lines 215-221: the tracker's reaction to one sampled frame, idx being
\* frame_count.
Track(start, ranges, detected, idx) ==
    IF detected
    THEN [start |-> IF start = NoStart THEN idx ELSE start, ranges |-> ranges]
    ELSE IF start # NoStart
         THEN [start |-> NoStart, ranges |-> Append(ranges, <<start, idx - 1>>)]
         ELSE [start |-> start, ranges |-> ranges]

\* Variant that closes the last segment one frame late.
CloseLastAtCount(start, ranges, count) ==
    IF start # NoStart THEN Append(ranges, <<start, count>>) ELSE ranges

\* Lines 228-230: close the segment still open when the loop ends.
CloseLast(start, ranges, count) ==
    IF start # NoStart THEN Append(ranges, <<start, count - 1>>) ELSE ranges

\* ------------------------------------------------------------ export_clip
\* Variant that pads one more frame before the segment.
PaddedStartOneMore(start_frame, pad_tenths, rate) ==
    Max(0, start_frame - SecondsToFrames(pad_tenths, rate) - 1)

\* Lines 129 and 132.
PaddedStart(start_frame, pad_tenths, rate) ==
    Max(0, start_frame - SecondsToFrames(pad_tenths, rate))

\* Lines 130 and 133.
PaddedEnd(end_frame, pad_tenths, rate, total) ==
    Min(total - 1, end_frame + SecondsToFrames(pad_tenths, rate))

\* f"{frame / rate:.1f}" of lines 139-141, rate > 0: the sign the text
\* starts with ("-0.0" for a negative value that rounds to zero) and the
\* value in tenths rounded to the nearest.  No quotient frame / rate of the
\* rates used here lies halfway between two tenths.
Format1(frame, rate) ==
    LET magnitude == IF frame < 0 THEN -frame ELSE frame
    IN  <<frame < 0, (20 * magnitude + rate) \div (2 * rate)>>

\* Lines 137-143: the path of the clip, output_folder being fixed:
\* "{base_name}_motion_{start_time:.1f}s-{end_time:.1f}s_{timestamp}.mp4".
OutputPath(base_name, start, end, rate, timestamp) ==
    <<base_name, Format1(start, rate), Format1(end, rate), timestamp>>

\* Variant of the write loop's test: "<=" for "<".
MoreToWriteInclusive(written, to_write) == written <= to_write

\* Line 156: while frames_written < frames_to_write.
MoreToWrite(written, to_write) == written < to_write

\* ---------------------------------------------------------- process_video
\* Line 203: int(current * 50 / total), total # 0.
AnalysisPercent(current, total) == (current * 50) \div total

\* Line 236: 50 + int((i + 1) * 50 / total_clips), n being i + 1.
ExportPercent(n, total_clips) == 50 + (n * 50) \div total_clips

\* Lines 200-205: "Analyzing frame {current}/{total}".
FrameProgress(current, total) ==
    <<"frame", AnalysisPercent(current, total), current, total>>

\* Variant that numbers the clips from 0.
ClipProgressFromZero(n, total_clips) ==
    <<"clip", ExportPercent(n, total_clips), n - 1, total_clips>>

\* Lines 233-238: "Exporting clip {i+1}/{total_clips}", n being i + 1.
ClipProgress(n, total_clips) ==
    <<"clip", ExportPercent(n, total_clips), n, total_clips>>

\* Variant of line 231 that drops the clips already written.
StoppedClipsDropped(clips) == <<>>

\* Line 231: what the export loop returns when it sees the stop flag.
StoppedClips(clips) == clips

\* ------------------------------------------------------------------ state
VARIABLES
    \* VideoProcessor and its caller's options
    roi, frame_skip, merge_gap, padding_before, padding_after,
    stop_requested,      \* self._stop_requested
    \* process_all_videos
    pc,                  \* position of the worker in the pipeline
    vi,                  \* 1-based index of the video of the for loop
    results,             \* results dict, in insertion order: one clip list per video
    \* the source file of video vi
    total_frames, fps,
    \* MotionDetector and analyze_video_for_motion
    previous_frame, motion_ranges, current_motion_start, frame_count,
    src_pos,             \* frames the analysis capture has delivered
    sample,              \* what the last detect_motion call returned
    \* process_video
    pv_ranges,           \* motion_ranges of process_video: the merged list
    ci,                  \* i + 1 of the export for loop
    exported_clips,
    \* export_clip
    actual_start, actual_end, frames_to_write, frames_written,
    avail,               \* frames the source delivers from actual_start on
    handles,             \* captures and writers opened and not released
    progress,            \* last emission of video_progress: <<label, numerator, the
                         \* two numbers of the label text>>
    \* history, read by the properties only
    stop_seen,           \* a poll of the stop flag has returned true
    nsampled,            \* detect_motion calls since reset()
    an_exit,             \* why the analysis loop ended
    any_motion,          \* a sampled frame of this video reported motion
    nexports,            \* export_clip calls for this video
    last_emit,           \* how the tracker emitted its last segment
    \* the same video analysed by a MotionDetector constructed for it alone
    f_prev, f_start, f_ranges,
    outcome,             \* how the last process_video call ended, until the next one starts
    \* _merge_ranges applied on its own
    m_pc, m_ranges, m_fps, m_gap, m_out, m_again,
    \* the padding arithmetic of export_clip applied on its own
    p_pc, p_in, p_out,
    \* parse_roi and detect_motion applied on their own
    d_pc, d_in, d_parsed, d_out,
    \* the export loop of process_video with the paths it returns, on its own
    n_pc, n_in, n_clock, n_paths,
    \* gui.py: the worker thread of a processing run and the stop handler
    g_pc,                \* position of _process_videos_thread
    g_user,              \* position of _stop_processing
    g_processing,        \* self.processing
    g_stop,              \* self.processor._stop_requested
    g_was_stopped,       \* was_stopped
    g_vi,                \* 1-based index of the video process_all_videos is at
    g_posted             \* callbacks handed to root.after, in order

cfgVars    == <<roi, frame_skip, merge_gap, padding_before, padding_after>>
pavVars    == <<vi, results>>
srcVars    == <<total_frames, fps>>
twinVars   == <<f_prev, f_start, f_ranges>>
anVars     == <<motion_ranges, current_motion_start, frame_count, src_pos,
                an_exit, any_motion, last_emit, twinVars>>
detVars    == <<previous_frame, sample, nsampled>>
pvVars     == <<pv_ranges, ci, exported_clips, nexports>>
exVars     == <<actual_start, actual_end, frames_to_write, frames_written, avail>>
mergeVars  == <<m_pc, m_ranges, m_fps, m_gap, m_out, m_again>>
padVars    == <<p_pc, p_in, p_out>>
roiVars    == <<d_pc, d_in, d_parsed, d_out>>
nameVars   == <<n_pc, n_in, n_clock, n_paths>>
guiVars    == <<g_pc, g_user, g_processing, g_stop, g_was_stopped, g_vi, g_posted>>
unitVars   == <<padVars, roiVars, nameVars, guiVars>>
vars == <<cfgVars, stop_requested, pc, pavVars, outcome, srcVars, anVars, detVars,
          pvVars, exVars, handles, progress, stop_seen, mergeVars, unitVars>>

NoSample == [detected |-> FALSE, num |-> 0, den |-> 1]
NoEmit   == [how |-> "none", open |-> NoStart, seg |-> <<0, 0>>, at |-> 0]
NoProgress == <<"none", 0, 0, 0>>
NoOutcome == [how |-> "none", motion |-> FALSE, frames |-> 0, ranges |-> 0,
              exports |-> 0]

\* The locals of analyze_video_for_motion, process_video and export_clip
\* before the call and after it returned or raised.
LocalsIdle ==
    /\ total_frames = 0 /\ fps = 0
    /\ motion_ranges = <<>> /\ current_motion_start = NoStart
    /\ frame_count = 0 /\ src_pos = 0
    /\ an_exit = "none" /\ any_motion = FALSE /\ last_emit = NoEmit
    /\ f_prev = NoFrame /\ f_start = NoStart /\ f_ranges = <<>>
    /\ pv_ranges = <<>> /\ ci = 0 /\ exported_clips = <<>> /\ nexports = 0
    /\ actual_start = 0 /\ actual_end = 0
    /\ frames_to_write = 0 /\ frames_written = 0 /\ avail = 0

LocalsDropped ==
    /\ total_frames' = 0 /\ fps' = 0
    /\ motion_ranges' = <<>> /\ current_motion_start' = NoStart
    /\ frame_count' = 0 /\ src_pos' = 0
    /\ an_exit' = "none" /\ any_motion' = FALSE /\ last_emit' = NoEmit
    /\ f_prev' = NoFrame /\ f_start' = NoStart /\ f_ranges' = <<>>
    /\ pv_ranges' = <<>> /\ ci' = 0 /\ exported_clips' = <<>> /\ nexports' = 0
    /\ actual_start' = 0 /\ actual_end' = 0
    /\ frames_to_write' = 0 /\ frames_written' = 0 /\ avail' = 0

MergeIdle ==
    /\ m_pc = "off" /\ m_ranges = <<>> /\ m_fps = 0 /\ m_gap = 0
    /\ m_out = <<>> /\ m_again = <<>>

NoPadIn  == [seg |-> <<0, 0>>, fps |-> 0, before |-> 0, after |-> 0, total |-> 0]
NoPadOut == [start |-> 0, end |-> 0]
NoParts  == <<0, 0, 0, 0>>
NoRoiIn  == [parts |-> NoParts, prev |-> NoFrame, scene |-> 0]
NoParsed == [given |-> NoParts, reversed |-> NoParts]
NoResult == [detected |-> FALSE, num |-> 0, den |-> 1, prev |-> NoFrame]
NoRoiOut == [given |-> NoResult, reversed |-> NoResult]

PadIdle ==
    /\ p_pc = "off" /\ p_in = NoPadIn /\ p_out = NoPadOut

RoiIdle ==
    /\ d_pc = "off" /\ d_in = NoRoiIn /\ d_parsed = NoParsed /\ d_out = NoRoiOut

NoNameIn == [ranges |-> <<>>, fps |-> 0, before |-> 0, after |-> 0, total |-> 0]

NameIdle ==
    /\ n_pc = "off" /\ n_in = NoNameIn /\ n_clock = 0 /\ n_paths = <<>>

GuiIdle ==
    /\ g_pc = "off" /\ g_user = "off" /\ g_processing = FALSE /\ g_stop = FALSE
    /\ g_was_stopped = FALSE /\ g_vi = 1 /\ g_posted = <<>>

PipelineIdle ==
    /\ stop_requested = FALSE /\ stop_seen = FALSE
    /\ vi = 1 /\ results = <<>> /\ outcome = NoOutcome
    /\ previous_frame = NoFrame /\ sample = NoSample /\ nsampled = 0
    /\ handles = {} /\ progress = NoProgress
    /\ LocalsIdle

\* VideoProcessor(...) constructed, process_all_videos about to enter its loop.
Init ==
    /\ roi \in Rois
    /\ frame_skip \in FrameSkips
    /\ merge_gap \in GapChoices
    /\ padding_before \in PadChoices
    /\ padding_after \in PadChoices
    /\ pc = "pav_loop"
    /\ PipelineIdle
    /\ MergeIdle
    /\ PadIdle
    /\ RoiIdle
    /\ NameIdle
    /\ GuiIdle

\* process_video returned clips to line 291-292 of process_all_videos.
Returned(clips) ==
    /\ results' = Append(results, clips)
    /\ outcome' = [how |-> "returned", motion |-> any_motion,
                    frames |-> frame_count, ranges |-> Len(pv_ranges),
                    exports |-> nexports]
    /\ vi' = vi + 1
    /\ pc' = "pav_loop"
    /\ LocalsDropped

\* Variant of the except clause that lets the exception end the batch.
RaisedAborts ==
    /\ results' = results
    /\ outcome' = [how |-> "raised", motion |-> any_motion,
                    frames |-> frame_count, ranges |-> Len(pv_ranges),
                    exports |-> nexports]
    /\ vi' = vi
    /\ pc' = "pav_done"
    /\ LocalsDropped

\* Variant of the except clause that records the clips written so far.
RaisedKeepsClips ==
    /\ results' = Append(results, exported_clips)
    /\ outcome' = [how |-> "raised", motion |-> any_motion,
                    frames |-> frame_count, ranges |-> Len(pv_ranges),
                    exports |-> nexports]
    /\ vi' = vi + 1
    /\ pc' = "pav_loop"
    /\ LocalsDropped

\* process_video raised; lines 294-296 record an empty list.
Raised ==
    /\ results' = Append(results, <<>>)
    /\ outcome' = [how |-> "raised", motion |-> any_motion,
                    frames |-> frame_count, ranges |-> Len(pv_ranges),
                    exports |-> nexports]
    /\ vi' = vi + 1
    /\ pc' = "pav_loop"
    /\ LocalsDropped

\* request_stop(), called from another thread.
RequestStop ==
    /\ pc \notin {"pav_done"}
    /\ ~stop_requested
    /\ stop_requested' = TRUE
    /\ UNCHANGED <<cfgVars, pc, pavVars, outcome, srcVars, anVars, detVars, pvVars,
                   exVars, handles, progress, stop_seen, mergeVars, unitVars>>

\* Variant of the loop head without the check of lines 273-274.
PavLoopWithoutCheck ==
    /\ pc = "pav_loop"
    /\ IF vi > NumVideos
       THEN pc' = "pav_done" /\ UNCHANGED progress
       ELSE pc' = "pv_entry" /\ progress' = <<"video", 0, vi, NumVideos>>
    /\ UNCHANGED <<cfgVars, stop_requested, pavVars, outcome, srcVars, anVars,
                   detVars, pvVars, exVars, handles, stop_seen, mergeVars,
                   unitVars>>

\* process_all_videos, lines 271-284: loop head.
PavLoop ==
    /\ pc = "pav_loop"
    /\ IF vi > NumVideos
       THEN pc' = "pav_done" /\ UNCHANGED <<progress, stop_seen>>
       ELSE IF stop_requested
            THEN pc' = "pav_done" /\ stop_seen' = TRUE /\ UNCHANGED progress
            ELSE pc' = "pv_entry" /\ progress' = <<"video", 0, vi, NumVideos>>
                 /\ UNCHANGED stop_seen
    /\ UNCHANGED <<cfgVars, stop_requested, pavVars, outcome, srcVars, anVars,
                   detVars, pvVars, exVars, handles, mergeVars, unitVars>>

\* Variant of lines 189-197 without the check of lines 192-193.
PvEntryWithoutCheck ==
    /\ pc = "pv_entry"
    /\ pc' = "an_open"
    /\ progress' = <<"analyzing", 0, 0, 0>>
    /\ outcome' = NoOutcome
    /\ UNCHANGED <<pavVars, srcVars, anVars, pvVars, exVars, stop_seen>>
    /\ UNCHANGED <<cfgVars, stop_requested, detVars, handles, mergeVars,
                   unitVars>>

\* process_video, lines 189-197.
PvEntry ==
    /\ pc = "pv_entry"
    /\ IF stop_requested
       THEN /\ Returned(<<>>)
            /\ stop_seen' = TRUE
            /\ UNCHANGED progress
       ELSE /\ pc' = "an_open"
            /\ progress' = <<"analyzing", 0, 0, 0>>
            /\ outcome' = NoOutcome
            /\ UNCHANGED <<pavVars, srcVars, anVars, pvVars, exVars, stop_seen>>
    /\ UNCHANGED <<cfgVars, stop_requested, detVars, handles, mergeVars,
                   unitVars>>

\* analyze_video_for_motion, lines 189-193: the source does not open.
AnOpenFail ==
    /\ pc = "an_open"
    /\ previous_frame' = Reset(previous_frame)
    /\ nsampled' = 0
    /\ Raised
    /\ UNCHANGED <<cfgVars, stop_requested, sample, handles, progress, stop_seen,
                   mergeVars, unitVars>>

\* analyze_video_for_motion, lines 189-200.
AnOpen ==
    /\ pc = "an_open"
    /\ previous_frame' = Reset(previous_frame)
    /\ nsampled' = 0
    /\ handles' = handles \cup {<<"capture", vi, 0>>}
    /\ total_frames' \in ReportedTotals
    /\ fps' \in FpsValues
    /\ motion_ranges' = <<>>
    /\ current_motion_start' = NoStart
    /\ frame_count' = 0
    /\ f_prev' = NoFrame
    /\ f_start' = NoStart
    /\ f_ranges' = <<>>
    /\ pc' = "an_loop"
    /\ UNCHANGED <<cfgVars, stop_requested, pavVars, outcome, src_pos, an_exit,
                   any_motion, last_emit, sample, pvVars, exVars, progress,
                   stop_seen, mergeVars, unitVars>>

\* Variant of lines 202-205 that checks the flag before sampled frames only.
AnStopCheckSampledOnly ==
    /\ pc = "an_loop"
    /\ IF stop_requested /\ frame_count % frame_skip = 0
       THEN pc' = "an_close" /\ an_exit' = "stop" /\ stop_seen' = TRUE
       ELSE pc' = "an_read" /\ UNCHANGED <<an_exit, stop_seen>>
    /\ UNCHANGED <<cfgVars, stop_requested, pavVars, outcome, srcVars,
                   motion_ranges, current_motion_start, frame_count, src_pos,
                   any_motion, last_emit, twinVars, detVars, pvVars, exVars,
                   handles, progress, mergeVars, unitVars>>

\* Lines 202-205: the stop check at the head of the read loop.
AnStopCheck ==
    /\ pc = "an_loop"
    /\ IF stop_requested
       THEN pc' = "an_close" /\ an_exit' = "stop" /\ stop_seen' = TRUE
       ELSE pc' = "an_read" /\ UNCHANGED <<an_exit, stop_seen>>
    /\ UNCHANGED <<cfgVars, stop_requested, pavVars, outcome, srcVars,
                   motion_ranges, current_motion_start, frame_count, src_pos,
                   any_motion, last_emit, twinVars, detVars, pvVars, exVars,
                   handles, progress, mergeVars, unitVars>>

\* Lines 207-209: cap.read() fails (end of stream or a read error).
AnReadFail ==
    /\ pc = "an_read"
    /\ pc' = "an_close"
    /\ an_exit' = "read"
    /\ UNCHANGED <<cfgVars, stop_requested, pavVars, outcome, srcVars,
                   motion_ranges, current_motion_start, frame_count, src_pos,
                   any_motion, last_emit, twinVars, detVars, pvVars, exVars,
                   handles, progress, stop_seen, mergeVars, unitVars>>

\* Lines 207-226: one frame read, scored if sampled, counted, reported.
AnReadFrame ==
    /\ pc = "an_read"
    /\ src_pos < MaxFrames
    /\ \E sc \in Scenes :
        LET sampled == Sampled(frame_count, frame_skip)
            d == detect_motion(previous_frame, sc, roi)
            t == Track(current_motion_start, motion_ranges, d.detected, frame_count)
            emitted == sampled /\ Len(t.ranges) > Len(motion_ranges)
            fd == detect_motion(f_prev, sc, roi)
            ft == Track(f_start, f_ranges, fd.detected, frame_count)
        IN  IF total_frames = 0
            THEN \* analysis_progress divides by total: ZeroDivisionError
                 /\ previous_frame' = IF sampled THEN d.prev ELSE previous_frame
                 /\ sample' = IF sampled
                              THEN [detected |-> d.detected, num |-> d.num, den |-> d.den]
                              ELSE sample
                 /\ nsampled' = IF sampled THEN nsampled + 1 ELSE nsampled
                 /\ Raised
                 /\ UNCHANGED progress
            ELSE /\ src_pos' = src_pos + 1
                 /\ previous_frame' = IF sampled THEN d.prev ELSE previous_frame
                 /\ sample' = IF sampled
                              THEN [detected |-> d.detected, num |-> d.num, den |-> d.den]
                              ELSE sample
                 /\ nsampled' = IF sampled THEN nsampled + 1 ELSE nsampled
                 /\ any_motion' = (any_motion \/ (sampled /\ d.detected))
                 /\ current_motion_start' =
                        IF sampled THEN t.start ELSE current_motion_start
                 /\ motion_ranges' = IF sampled THEN t.ranges ELSE motion_ranges
                 /\ last_emit' =
                        IF emitted
                        THEN [how |-> "no_motion",
                              open |-> current_motion_start,
                              seg |-> t.ranges[Len(t.ranges)],
                              at  |-> frame_count]
                        ELSE last_emit
                 /\ f_prev' = IF sampled THEN fd.prev ELSE f_prev
                 /\ f_start' = IF sampled THEN ft.start ELSE f_start
                 /\ f_ranges' = IF sampled THEN ft.ranges ELSE f_ranges
                 /\ frame_count' = frame_count + 1
                 /\ progress' = FrameProgress(frame_count + 1, total_frames)
                 /\ pc' = "an_loop"
                 /\ UNCHANGED <<pavVars, outcome, srcVars, an_exit, pvVars, exVars>>
    /\ UNCHANGED <<cfgVars, stop_requested, handles, stop_seen, mergeVars,
                   unitVars>>

\* Variant of lines 228-237 without cap.release().
AnFinishKeepsCapture ==
    /\ pc = "an_close"
    /\ LET closed == CloseLast(current_motion_start, motion_ranges, frame_count)
       IN  /\ motion_ranges' = closed
           /\ last_emit' = IF Len(closed) > Len(motion_ranges)
                           THEN [how |-> "end", open |-> current_motion_start,
                                 seg |-> closed[Len(closed)], at |-> frame_count]
                           ELSE last_emit
           /\ pv_ranges' = merge_ranges(closed, fps, merge_gap)
    /\ f_ranges' = CloseLast(f_start, f_ranges, frame_count)
    /\ pc' = "pv_after"
    /\ UNCHANGED <<cfgVars, stop_requested, pavVars, outcome, srcVars,
                   current_motion_start, frame_count, src_pos, an_exit,
                   any_motion, f_prev, f_start, detVars, ci, exported_clips,
                   nexports, exVars, handles, progress, stop_seen, mergeVars,
                   unitVars>>

\* Lines 228-237: close the open segment, release the capture, merge, return.
AnFinish ==
    /\ pc = "an_close"
    /\ LET closed == CloseLast(current_motion_start, motion_ranges, frame_count)
       IN  /\ motion_ranges' = closed
           /\ last_emit' = IF Len(closed) > Len(motion_ranges)
                           THEN [how |-> "end", open |-> current_motion_start,
                                 seg |-> closed[Len(closed)], at |-> frame_count]
                           ELSE last_emit
           /\ pv_ranges' = merge_ranges(closed, fps, merge_gap)
    /\ f_ranges' = CloseLast(f_start, f_ranges, frame_count)
    /\ handles' = handles \ {<<"capture", vi, 0>>}
    /\ pc' = "pv_after"
    /\ UNCHANGED <<cfgVars, stop_requested, pavVars, outcome, srcVars,
                   current_motion_start, frame_count, src_pos, an_exit,
                   any_motion, f_prev, f_start, detVars, ci, exported_clips,
                   nexports, exVars, progress, stop_seen, mergeVars, unitVars>>

\* process_video, lines 217-227.
PvAfterAnalysis ==
    /\ pc = "pv_after"
    /\ IF stop_requested
       THEN /\ Returned(<<>>)
            /\ stop_seen' = TRUE
            /\ UNCHANGED progress
       ELSE IF pv_ranges = <<>>
            THEN /\ Returned(<<>>)
                 /\ progress' = <<"no_motion", 100, 0, 0>>
                 /\ UNCHANGED stop_seen
            ELSE /\ ci' = 1
                 /\ pc' = "pv_export"
                 /\ UNCHANGED <<pavVars, outcome, srcVars, anVars, pv_ranges,
                                exported_clips, nexports, exVars, progress,
                                stop_seen>>
    /\ UNCHANGED <<cfgVars, stop_requested, detVars, handles, mergeVars,
                   unitVars>>

\* process_video, lines 228-246: head of the export loop.
PvExportLoop ==
    /\ pc = "pv_export"
    /\ IF ci > Len(pv_ranges)
       THEN /\ Returned(exported_clips)
            /\ progress' = <<"exported", 100, Len(exported_clips), 0>>
            /\ UNCHANGED stop_seen
       ELSE IF stop_requested
            THEN /\ Returned(StoppedClips(exported_clips))
                 /\ stop_seen' = TRUE
                 /\ UNCHANGED progress
            ELSE /\ progress' = ClipProgress(ci, Len(pv_ranges))
                 /\ nexports' = nexports + 1
                 /\ pc' = "ex_open"
                 /\ UNCHANGED <<pavVars, outcome, srcVars, anVars, pv_ranges, ci,
                                exported_clips, exVars, stop_seen>>
    /\ UNCHANGED <<cfgVars, stop_requested, detVars, handles, mergeVars,
                   unitVars>>

\* export_clip, lines 119-121: the source does not open.
ExOpenFail ==
    /\ pc = "ex_open"
    /\ Raised
    /\ UNCHANGED <<cfgVars, stop_requested, detVars, handles, progress, stop_seen,
                   mergeVars, unitVars>>

\* export_clip, lines 119-154.
ExOpen ==
    /\ pc = "ex_open"
    /\ IF fps = 0
       THEN \* line 139, actual_start / fps: ZeroDivisionError
            /\ Raised
            /\ handles' = handles \cup {<<"capture", vi, ci>>}
       ELSE /\ actual_start' = PaddedStart(pv_ranges[ci][1], padding_before, fps)
            /\ actual_end' = PaddedEnd(pv_ranges[ci][2], padding_after, fps,
                                       total_frames)
            /\ frames_to_write' =
                   PaddedEnd(pv_ranges[ci][2], padding_after, fps, total_frames)
                   - PaddedStart(pv_ranges[ci][1], padding_before, fps) + 1
            /\ frames_written' = 0
            /\ avail' \in AvailChoices
            /\ handles' = handles \cup {<<"capture", vi, ci>>, <<"writer", vi, ci>>}
            /\ pc' = "ex_loop"
            /\ UNCHANGED <<pavVars, outcome, srcVars, anVars, pvVars>>
    /\ UNCHANGED <<cfgVars, stop_requested, detVars, progress, stop_seen,
                   mergeVars, unitVars>>

\* Lines 156-165: one frame read and written.
ExWriteFrame ==
    /\ pc = "ex_loop"
    /\ MoreToWrite(frames_written, frames_to_write)
    /\ frames_written < avail
    /\ frames_written' = frames_written + 1
    /\ UNCHANGED <<cfgVars, stop_requested, pc, pavVars, outcome, srcVars, anVars,
                   detVars, pvVars, actual_start, actual_end, frames_to_write,
                   avail, handles, progress, stop_seen, mergeVars, unitVars>>

\* Variant of the write loop that a stop request also ends.
ExLoopExitOnStop ==
    /\ pc = "ex_loop"
    /\ \/ ~(MoreToWrite(frames_written, frames_to_write) /\ frames_written < avail)
       \/ stop_requested
    /\ pc' = "ex_release"
    /\ UNCHANGED <<cfgVars, stop_requested, pavVars, outcome, srcVars, anVars,
                   detVars, pvVars, exVars, handles, progress, stop_seen,
                   mergeVars, unitVars>>

\* Lines 156-159: the loop ends, by its test or by a failed read.
ExLoopExit ==
    /\ pc = "ex_loop"
    /\ ~(MoreToWrite(frames_written, frames_to_write) /\ frames_written < avail)
    /\ pc' = "ex_release"
    /\ UNCHANGED <<cfgVars, stop_requested, pavVars, outcome, srcVars, anVars,
                   detVars, pvVars, exVars, handles, progress, stop_seen,
                   mergeVars, unitVars>>

\* Variant of the export loop that passes over the segment after each clip.
ExReleaseSkipsNext ==
    /\ pc = "ex_release"
    /\ handles' = handles \ {<<"capture", vi, ci>>, <<"writer", vi, ci>>}
    /\ exported_clips' = Append(exported_clips, <<vi, actual_start, actual_end>>)
    /\ ci' = ci + 2
    /\ pc' = "pv_export"
    /\ UNCHANGED <<cfgVars, stop_requested, pavVars, outcome, srcVars, anVars,
                   detVars, pv_ranges, nexports, exVars, progress, stop_seen,
                   mergeVars, unitVars>>

\* Lines 167-170 and 240-241: release, return the path, append it.
ExRelease ==
    /\ pc = "ex_release"
    /\ handles' = handles \ {<<"capture", vi, ci>>, <<"writer", vi, ci>>}
    /\ exported_clips' = Append(exported_clips, <<vi, actual_start, actual_end>>)
    /\ ci' = ci + 1
    /\ pc' = "pv_export"
    /\ UNCHANGED <<cfgVars, stop_requested, pavVars, outcome, srcVars, anVars,
                   detVars, pv_ranges, nexports, exVars, progress, stop_seen,
                   mergeVars, unitVars>>

Next ==
    \/ RequestStop
    \/ PavLoop
    \/ PvEntry
    \/ AnOpenFail
    \/ AnOpen
    \/ AnStopCheck
    \/ AnReadFail
    \/ AnReadFrame
    \/ AnFinish
    \/ PvAfterAnalysis
    \/ PvExportLoop
    \/ ExOpenFail
    \/ ExOpen
    \/ ExWriteFrame
    \/ ExLoopExit
    \/ ExRelease

Spec == Init /\ [][Next]_vars

\* The steps of the thread that runs process_all_videos.
Worker ==
    \/ PavLoop
    \/ PvEntry
    \/ AnOpenFail
    \/ AnOpen
    \/ AnStopCheck
    \/ AnReadFail
    \/ AnReadFrame
    \/ AnFinish
    \/ PvAfterAnalysis
    \/ PvExportLoop
    \/ ExOpenFail
    \/ ExOpen
    \/ ExWriteFrame
    \/ ExLoopExit
    \/ ExRelease

\* A processor constructed with one second of padding on both sides: the
\* padding sets how many frames a clip has, not whether a loop ends.
LiveInit ==
    /\ Init
    /\ padding_before = 10
    /\ padding_after = 10

\* The worker thread keeps running and every call it makes into OpenCV
\* (open, read, write, release) returns; request_stop may never be called.
SpecLive == LiveInit /\ [][Next]_vars /\ WF_vars(Worker)

\* ------------------------------------------- _merge_ranges on its own
\* Segments (start <= end) over the frame indices 0 .. MaxIdx.
Segments == {s \in (0 .. MaxIdx) \X (0 .. MaxIdx) : s[1] <= s[2]}

RECURSIVE ListsUpTo(_)
ListsUpTo(n) ==
    IF n = 0 THEN {<<>>}
    ELSE LET shorter == ListsUpTo(n - 1)
         IN  shorter \cup {Append(l, s) : l \in {x \in shorter : Len(x) = n - 1},
                                          s \in Segments}

\* The two-segment scenario of the merge examples.
ScenarioLists == { << <<10, 20>>, <<25, 30>> >> }
MergeFps  == {1, 10}
\* Gaps in tenths of a second; at 10 fps they are 0, 1, 4, 5 and 20 frames.
MergeGaps == {0, 1, 4, 5, 20}

MergeInit ==
    /\ roi = <<0, 0, 2, 2>>
    /\ frame_skip = 1
    /\ merge_gap = 0
    /\ padding_before = 0
    /\ padding_after = 0
    /\ pc = "off"
    /\ PipelineIdle
    /\ m_pc = "input"
    /\ m_ranges \in ListsUpTo(MaxLen) \cup ScenarioLists
    /\ m_fps \in MergeFps
    /\ m_gap \in MergeGaps
    /\ m_out = <<>>
    /\ m_again = <<>>
    /\ PadIdle
    /\ RoiIdle
    /\ NameIdle
    /\ GuiIdle

pipelineVars == <<cfgVars, stop_requested, pc, pavVars, outcome, srcVars, anVars,
                  detVars, pvVars, exVars, handles, progress, stop_seen>>

\* merged = _merge_ranges(ranges, fps, gap)
MergeApply ==
    /\ m_pc = "input"
    /\ m_out' = merge_ranges(m_ranges, m_fps, m_gap)
    /\ m_pc' = "merged"
    /\ UNCHANGED <<pipelineVars, unitVars, m_ranges, m_fps, m_gap, m_again>>

\* _merge_ranges(merged, fps, gap)
MergeAgain ==
    /\ m_pc = "merged"
    /\ m_again' = merge_ranges(m_out, m_fps, m_gap)
    /\ m_pc' = "again"
    /\ UNCHANGED <<pipelineVars, unitVars, m_ranges, m_fps, m_gap, m_out>>

MergeNext == MergeApply \/ MergeAgain

SpecMerge == MergeInit /\ [][MergeNext]_vars

\* ------------------------------ the padding of export_clip on its own
\* export_clip(video_path, start_frame, end_frame) for a source of the given
\* fps and frame count: the (10,30) example and cases where each clamp and
\* the truncation of int() decide the result.
PadSegments == { <<0, 0>>, <<1, 2>>, <<10, 30>> }
PadFps      == {1, 3, 10}
PadSeconds  == {0, 5, 20}
PadTotals   == {3, 40, 51, 60}

PadInit ==
    /\ roi = <<0, 0, 2, 2>>
    /\ frame_skip = 1
    /\ merge_gap = 0
    /\ padding_before = 0
    /\ padding_after = 0
    /\ pc = "off"
    /\ PipelineIdle
    /\ MergeIdle
    /\ RoiIdle
    /\ NameIdle
    /\ GuiIdle
    /\ p_pc = "input"
    /\ p_in \in [seg : PadSegments, fps : PadFps, before : PadSeconds,
                  after : PadSeconds, total : PadTotals]
    /\ p_out = NoPadOut

\* Lines 123-133.
PadApply ==
    /\ p_pc = "input"
    /\ p_out' = [start |-> PaddedStart(p_in.seg[1], p_in.before, p_in.fps),
                  end   |-> PaddedEnd(p_in.seg[2], p_in.after, p_in.fps,
                                      p_in.total)]
    /\ p_pc' = "padded"
    /\ UNCHANGED <<pipelineVars, mergeVars, roiVars, nameVars, guiVars, p_in>>

PadNext == PadApply

SpecPad == PadInit /\ [][PadNext]_vars

\* ---------------------- parse_roi and detect_motion on their own
\* main.parse_roi, lines 46-55, applied to the integers of the --roi string
\* (the result of split(',') and int()): a tuple, or <<>> for the
\* ArgumentTypeError.
parse_roi(parts) ==
    IF Len(parts) # 4 THEN <<>>
    ELSE LET x1 == parts[1]
             y1 == parts[2]
             x2 == parts[3]
             y2 == parts[4]
         IN  << IF x1 > x2 THEN x2 ELSE x1, IF y1 > y2 THEN y2 ELSE y1,
                IF x1 > x2 THEN x1 ELSE x2, IF y1 > y2 THEN y1 ELSE y2 >>

\* The same rectangle given from its opposite corner.
Reversed(parts) == <<parts[3], parts[4], parts[1], parts[2]>>

\* Corner coordinates around and beyond the 3x2 frame, and the rectangle of
\* the usage text in both corner orders.
RoiCoords    == {-1, 0, 1, 3}
ExampleParts == { <<500, 400, 100, 100>>, <<100, 100, 500, 400>> }
\* References a detector can hold when detect_motion is called: none, or the
\* crop of an earlier frame under the full frame or under its top left pixel.
PrevRois    == { <<0, 0, 3, 2>>, <<0, 0, 1, 1>> }
PrevChoices ==
    {NoFrame} \cup
    {Crop(sc, ClampRoi(NormalizeRoi(r), FrameW, FrameH)) :
        sc \in Scenes, r \in PrevRois}

RoiInit ==
    /\ roi = <<0, 0, 2, 2>>
    /\ frame_skip = 1
    /\ merge_gap = 0
    /\ padding_before = 0
    /\ padding_after = 0
    /\ pc = "off"
    /\ PipelineIdle
    /\ MergeIdle
    /\ PadIdle
    /\ NameIdle
    /\ GuiIdle
    /\ d_pc = "input"
    /\ d_in \in [parts : (RoiCoords \X RoiCoords \X RoiCoords \X RoiCoords)
                          \cup ExampleParts,
                  prev  : PrevChoices,
                  scene : Scenes]
    /\ d_parsed = NoParsed
    /\ d_out = NoRoiOut

\* parse_roi of the rectangle and of the same rectangle in reverse corner order.
RoiParse ==
    /\ d_pc = "input"
    /\ d_parsed' = [given    |-> parse_roi(d_in.parts),
                     reversed |-> parse_roi(Reversed(d_in.parts))]
    /\ d_pc' = "parsed"
    /\ UNCHANGED <<pipelineVars, mergeVars, padVars, nameVars, guiVars, d_in,
                   d_out>>

\* detect_motion(frame, roi) with the rectangle as given and in reverse
\* corner order, from the same reference.
RoiDetect ==
    /\ d_pc = "parsed"
    /\ d_out' = [given    |-> detect_motion(d_in.prev, d_in.scene, d_in.parts),
                  reversed |-> detect_motion(d_in.prev, d_in.scene,
                                             Reversed(d_in.parts))]
    /\ d_pc' = "scored"
    /\ UNCHANGED <<pipelineVars, mergeVars, padVars, nameVars, guiVars, d_in,
                   d_parsed>>

RoiNext == RoiParse \/ RoiDetect

SpecRoi == RoiInit /\ [][RoiNext]_vars

\* ------------- the export loop of process_video and its paths on its own
\* Seconds datetime.now() can advance over one call.
MaxTick == 1
\* Merged lists the analysis can return: the tracker never opens a segment
\* on frame 0 (the seeding frame) and leaves at least one frame between two
\* segments; and two short segments two frames apart at 30 fps.
NameRanges ==
    {r \in {merge_ranges(l, 1, 10) : l \in ListsUpTo(MaxLen)} :
         r # <<>> => r[1][1] >= 1}
    \cup { << <<2, 2>>, <<4, 4>> >> }
NameFps     == {1, 30}
NameSeconds == {0, 10, 30}
NameTotals  == {2, MaxIdx + 1, 40}

NameInit ==
    /\ roi = <<0, 0, 2, 2>>
    /\ frame_skip = 1
    /\ merge_gap = 0
    /\ padding_before = 0
    /\ padding_after = 0
    /\ pc = "off"
    /\ PipelineIdle
    /\ MergeIdle
    /\ PadIdle
    /\ RoiIdle
    /\ n_pc = "loop"
    /\ n_in \in [ranges : NameRanges, fps : NameFps, before : NameSeconds,
                  after : NameSeconds, total : NameTotals]
    /\ n_clock = 0
    /\ n_paths = <<>>
    /\ GuiIdle

\* Lines 228-241 with export_clip's lines 129-143 and 170: the next clip is
\* exported under the name built from its padded window and the wall clock,
\* and its path is appended.
NameExport ==
    /\ n_pc = "loop"
    /\ Len(n_paths) < Len(n_in.ranges)
    /\ \E now \in {n_clock, n_clock + 1} \cap (0 .. MaxTick) :
          LET seg == n_in.ranges[Len(n_paths) + 1]
          IN  /\ n_clock' = now
              /\ n_paths' = Append(n_paths,
                     OutputPath("video",
                                PaddedStart(seg[1], n_in.before, n_in.fps),
                                PaddedEnd(seg[2], n_in.after, n_in.fps,
                                          n_in.total),
                                n_in.fps, now))
    /\ UNCHANGED <<pipelineVars, mergeVars, padVars, roiVars, guiVars, n_pc, n_in>>

\* Lines 224 and 246.
NameReturn ==
    /\ n_pc = "loop"
    /\ Len(n_paths) = Len(n_in.ranges)
    /\ n_pc' = "returned"
    /\ UNCHANGED <<pipelineVars, mergeVars, padVars, roiVars, guiVars, n_in,
                   n_clock, n_paths>>

NameNext == NameExport \/ NameReturn

SpecName == NameInit /\ [][NameNext]_vars

\* ------------------ gui.py: a processing run and the stop confirmation
\* What root.after(0, ...) was called with: a progress update or one of the
\* handlers _processing_stopped, _processing_complete, _processing_error,
\* _reset_ui.
Terminal == {"stopped", "complete", "error"}

otherUnits == <<pipelineVars, mergeVars, padVars, roiVars, nameVars>>

\* _start_processing, lines 397-419: processing set, a new VideoProcessor,
\* the worker thread started.
GuiInit ==
    /\ roi = <<0, 0, 2, 2>>
    /\ frame_skip = 1
    /\ merge_gap = 0
    /\ padding_before = 0
    /\ padding_after = 0
    /\ pc = "off"
    /\ PipelineIdle
    /\ MergeIdle
    /\ PadIdle
    /\ RoiIdle
    /\ NameIdle
    /\ g_pc = "start"
    /\ g_user = "idle"
    /\ g_processing = TRUE
    /\ g_stop = FALSE
    /\ g_was_stopped = FALSE
    /\ g_vi = 1
    /\ g_posted = <<>>

\* progress_callback of lines 425-430: an update is posted unless
\* self.processing is false.
Updated(posted, processing) ==
    IF processing THEN Append(posted, "update") ELSE posted

\* Line 432 into process_all_videos, line 263: get_video_files returns.
GuiListVideos ==
    /\ g_pc = "start"
    /\ g_pc' = "loop"
    /\ UNCHANGED <<otherUnits, g_user, g_processing, g_stop, g_was_stopped,
                   g_vi, g_posted>>

\* os.listdir of get_video_files raises; the exception leaves
\* process_all_videos.
GuiListVideosRaises ==
    /\ g_pc = "start"
    /\ g_pc' = "except"
    /\ UNCHANGED <<otherUnits, g_user, g_processing, g_stop, g_was_stopped,
                   g_vi, g_posted>>

\* process_all_videos, lines 271-284: the loop ends, or breaks on the stop
\* flag, or announces the next video through progress_callback.
GuiLoopHead ==
    /\ g_pc = "loop"
    /\ IF g_vi > NumVideos \/ g_stop
       THEN g_pc' = "test_stop" /\ UNCHANGED g_posted
       ELSE g_pc' = "video" /\ g_posted' = Updated(g_posted, g_processing)
    /\ UNCHANGED <<otherUnits, g_user, g_processing, g_stop, g_was_stopped,
                   g_vi>>

\* process_video emits through video_progress (lines 287-289).
GuiVideoEmits ==
    /\ g_pc = "video"
    /\ g_posted' = Updated(g_posted, g_processing)
    /\ g_pc' = "emitted"
    /\ UNCHANGED <<otherUnits, g_user, g_processing, g_stop, g_was_stopped,
                   g_vi>>

\* Lines 291-296: process_video returned or raised; the next video.
GuiVideoEnds ==
    /\ g_pc \in {"video", "emitted"}
    /\ g_vi' = g_vi + 1
    /\ g_pc' = "loop"
    /\ UNCHANGED <<otherUnits, g_user, g_processing, g_stop, g_was_stopped,
                   g_posted>>

\* Lines 435-438.
GuiTestStop ==
    /\ g_pc = "test_stop"
    /\ IF g_stop
       THEN /\ g_was_stopped' = TRUE
            /\ g_posted' = Append(g_posted, "stopped")
            /\ g_pc' = "finally"
       ELSE /\ g_pc' = "test_processing"
            /\ UNCHANGED <<g_was_stopped, g_posted>>
    /\ UNCHANGED <<otherUnits, g_user, g_processing, g_stop, g_vi>>

\* Lines 439-441.
GuiTestProcessing ==
    /\ g_pc = "test_processing"
    /\ g_posted' = IF g_processing THEN Append(g_posted, "complete") ELSE g_posted
    /\ g_pc' = "finally"
    /\ UNCHANGED <<otherUnits, g_user, g_processing, g_stop, g_was_stopped,
                   g_vi>>

\* Lines 443-445.
GuiExcept ==
    /\ g_pc = "except"
    /\ g_posted' = IF ~g_was_stopped THEN Append(g_posted, "error") ELSE g_posted
    /\ g_pc' = "finally"
    /\ UNCHANGED <<otherUnits, g_user, g_processing, g_stop, g_was_stopped,
                   g_vi>>

\* Lines 446-448.
GuiFinally ==
    /\ g_pc = "finally"
    /\ g_processing' = FALSE
    /\ g_posted' = Append(g_posted, "reset")
    /\ g_pc' = "done"
    /\ UNCHANGED <<otherUnits, g_user, g_stop, g_was_stopped, g_vi>>

\* _stop_processing, lines 488-494: the user confirms while the run is on;
\* self.processing is cleared.
GuiStopConfirmed ==
    /\ g_user = "idle"
    /\ g_pc # "done"
    /\ g_processing' = FALSE
    /\ g_user' = "cleared"
    /\ UNCHANGED <<otherUnits, g_pc, g_stop, g_was_stopped, g_vi, g_posted>>

\* _stop_processing, lines 495-496: self.processor.request_stop().
GuiRequestStop ==
    /\ g_user = "cleared"
    /\ g_stop' = TRUE
    /\ g_user' = "requested"
    /\ UNCHANGED <<otherUnits, g_pc, g_processing, g_was_stopped, g_vi,
                   g_posted>>

GuiNext ==
    \/ GuiListVideos
    \/ GuiListVideosRaises
    \/ GuiLoopHead
    \/ GuiVideoEmits
    \/ GuiVideoEnds
    \/ GuiTestStop
    \/ GuiTestProcessing
    \/ GuiExcept
    \/ GuiFinally
    \/ GuiStopConfirmed
    \/ GuiRequestStop

SpecGui == GuiInit /\ [][GuiNext]_vars

\* ====================================================================
\* Properties
\* ====================================================================
GapFrames == SecondsToFrames(m_gap, m_fps)

SortedByStart(l) == \A i \in 1 .. Len(l) - 1 : l[i][1] <= l[i + 1][1]
PairwiseDisjoint(l) ==
    \A i, j \in 1 .. Len(l) :
        i < j => (l[i][2] < l[j][1] \/ l[j][2] < l[i][1])
GapsExceed(l, g) == \A i \in 1 .. Len(l) - 1 : l[i + 1][1] - l[i][2] > g

\* C1: for every non-empty list of segments, in any order, and every
\* gap_frames >= 0, the merged list is sorted by start, pairwise disjoint,
\* and every adjacent pair has next.start - prev.end > gap_frames.
C1_MergedSortedDisjointMinimal ==
    (m_pc \in {"merged", "again"} /\ m_ranges # <<>>) =>
        /\ m_out # <<>>
        /\ SortedByStart(m_out)
        /\ PairwiseDisjoint(m_out)
        /\ GapsExceed(m_out, GapFrames)

\* An unsorted input with overlapping segments whose merge keeps two segments.
C1_Witness ==
    /\ m_pc = "merged"
    /\ ~SortedByStart(m_ranges)
    /\ ~PairwiseDisjoint(m_ranges)
    /\ Len(m_out) >= 2

\* C2: merging is idempotent: merge(merge(S, fps, g), fps, g) = merge(S, fps, g).
C2_MergeIdempotent ==
    m_pc = "again" => m_again = m_out

\* A second application to a list that the first one shortened to two segments.
C2_Witness ==
    /\ m_pc = "again"
    /\ Len(m_out) = 2
    /\ Len(m_ranges) = 3
    /\ GapFrames > 0

\* C3 as stated: neither of the first two sampled frames scored after
\* reset() reports motion.
C3_FirstTwoSamplesSilent ==
    nsampled \in {1, 2} => ~sample.detected

\* C3 amended: the first sampled frame scored after reset() never reports
\* motion (the second is compared with the first and may).
C3_FirstSampleSilent ==
    nsampled = 1 => (~sample.detected /\ sample.num = 0)

\* The first frame of the second video has been scored, the first video
\* having reported motion and left a reference behind.
C3_Witness ==
    /\ nsampled = 1
    /\ vi = 2
    /\ previous_frame # NoFrame
    /\ results[1] # <<>>

\* C4 as stated: a segment closed by a sampled frame without motion is
\* (open_start, index of the previous sampled frame), so both of its
\* boundaries are multiples of frame_skip.
C4_ClosedAtPreviousSample ==
    last_emit.how = "no_motion" =>
        /\ last_emit.seg = <<last_emit.open, last_emit.at - frame_skip>>
        /\ last_emit.seg[1] % frame_skip = 0
        /\ last_emit.seg[2] % frame_skip = 0

\* C4 amended: a segment closed by a sampled frame without motion is
\* (open_start, current_index - 1): it starts at a sampled index and ends at
\* the source frame just before the sampled frame that closed it, which is
\* the previous sampled frame only when frame_skip = 1.
C4_ClosedBeforeCurrentSample ==
    last_emit.how = "no_motion" =>
        /\ last_emit.seg = <<last_emit.open, last_emit.at - 1>>
        /\ last_emit.open % frame_skip = 0
        /\ last_emit.at % frame_skip = 0
        /\ last_emit.open < last_emit.at
        /\ (frame_skip = 1 => last_emit.seg[2] = last_emit.at - frame_skip)

\* A segment closed by a frame without motion while every second frame is
\* sampled.
C4_Witness ==
    /\ last_emit.how = "no_motion"
    /\ frame_skip = 2
    /\ motion_ranges # <<>>

\* C5 as stated: the padded bounds of every export satisfy
\* 0 <= actual_start <= actual_end <= total_frames - 1.
C5_PaddedBoundsWithinSource ==
    pc \in {"ex_loop", "ex_release"} =>
        /\ 0 <= actual_start
        /\ actual_start <= actual_end
        /\ actual_end <= total_frames - 1

\* C6 as stated: the frames export_clip writes number
\* min(actual_end - actual_start + 1, frames the source delivers from
\* actual_start).
C6_WrittenIsMinOfRequestedAndAvailable ==
    pc = "ex_release" =>
        frames_written = Min(actual_end - actual_start + 1, avail)

\* C7: once the stop flag is set, process_video returns exactly the clips
\* whose export completed; after a poll has seen the flag no export is
\* started; the clip lists recorded for earlier videos are never changed.
C7_StopKeepsCompletedClips ==
    [][ /\ (stop_requested /\ Len(results') = Len(results) + 1
              /\ outcome'.how = "returned")
            => results'[Len(results')] = exported_clips
        /\ stop_seen => (nexports' <= nexports /\ pc' # "ex_open")
        /\ Len(results') >= Len(results)
        /\ \A k \in 1 .. Len(results) : results'[k] = results[k]
      ]_vars

\* The second video was stopped between two of its clips, after the first
\* video had produced a clip.
C7_Witness ==
    /\ stop_seen
    /\ Len(results) = 2
    /\ results[1] # <<>>
    /\ outcome.how = "returned"
    /\ Len(results[2]) >= 1
    /\ Len(results[2]) < outcome.ranges

\* The rectangle as the claims describe it: empty after normalization and
\* clamping to the frame.
RoiDegenerate ==
    LET r == ClampRoi(NormalizeRoi(roi), FrameW, FrameH)
    IN  r.x2 <= r.x1 \/ r.y2 <= r.y1

ExportPcs == {"ex_open", "ex_loop", "ex_release"}

\* C8: if no sampled frame of a video reports motion, the analysis returns no
\* segment, export_clip is never called and process_video returns [].
C8_NoMotionNoClips ==
    /\ ~any_motion =>
          /\ motion_ranges = <<>>
          /\ pv_ranges = <<>>
          /\ nexports = 0
          /\ pc \notin ExportPcs \cup {"pv_export"}
    /\ (outcome.how # "none" /\ ~outcome.motion) =>
          /\ outcome.ranges = 0
          /\ outcome.exports = 0
          /\ results[Len(results)] = <<>>

\* A video of at least three frames, none with motion, analysed to its end
\* with a rectangle that is not degenerate and no stop request.
C8_Witness ==
    /\ ~stop_requested
    /\ ~RoiDegenerate
    /\ outcome.how = "returned"
    /\ ~outcome.motion
    /\ outcome.frames >= 3

\* C9: with a rectangle that is degenerate after normalization and clamping
\* every scored frame returns (false, 0.0) and leaves no reference, and the
\* video yields no segment and no clip.
C9_DegenerateRoiYieldsNothing ==
    RoiDegenerate =>
        /\ sample = NoSample
        /\ previous_frame = NoFrame
        /\ ~any_motion
        /\ motion_ranges = <<>>
        /\ pv_ranges = <<>>
        /\ nexports = 0
        /\ \A k \in 1 .. Len(results) : results[k] = <<>>

\* A video analysed to its end with a degenerate rectangle, after at least
\* two of its frames were scored.
C9_Witness ==
    /\ RoiDegenerate
    /\ nsampled >= 2
    /\ pc = "pv_after"
    /\ an_exit = "read"

\* C10: a failed read ends the analysis loop without raising; a segment that
\* is open is emitted as (open_start, index of the last frame read), and
\* nothing is emitted when none is open.
C10_ReadFailureClosesSegment ==
    [][ (pc = "an_close" /\ an_exit = "read" /\ pc' # pc) =>
            /\ pc' = "pv_after"
            /\ outcome' = outcome
            /\ results' = results
            /\ motion_ranges' =
                   IF current_motion_start # NoStart
                   THEN Append(motion_ranges, <<current_motion_start, src_pos - 1>>)
                   ELSE motion_ranges
      ]_vars

\* A read failed before the source reached its length, with a segment open
\* since an earlier frame.
C10_Witness ==
    /\ pc = "pv_after"
    /\ an_exit = "read"
    /\ last_emit.how = "end"
    /\ src_pos < MaxFrames
    /\ last_emit.seg[1] < last_emit.seg[2]

\* C11: in process_all_videos a source that cannot be opened for analysis
\* raises for that video only: the video is recorded with an empty clip list,
\* the loop goes on with the next video, and without a stop request the batch
\* ends only after every video has an entry.
C11_OpenFailureSkipsOneVideo ==
    [][ /\ (pc = "an_open" /\ pc' \notin {"an_open", "an_loop"}) =>
              /\ results' = Append(results, <<>>)
              /\ vi' = vi + 1
              /\ pc' = "pav_loop"
        /\ (pc = "pav_loop" /\ pc' # pc /\ vi <= NumVideos /\ ~stop_requested) =>
              /\ pc' = "pv_entry"
              /\ vi' = vi
        /\ (pc' = "pav_done" /\ ~stop_requested) => Len(results) = NumVideos
      ]_vars

\* The first video did not open (no frame of it was scored) and the loop has
\* started the second video.
C11_Witness ==
    /\ pc = "pv_entry"
    /\ vi = 2
    /\ results = << <<>> >>
    /\ outcome.how = "raised"
    /\ nsampled = 0
    /\ ~stop_requested

\* C12: an exception raised while exporting a clip of video k is caught by
\* the loop of process_all_videos: video k is recorded with no clip, even if
\* earlier clips of k were already written, and the loop goes on with video
\* k + 1.
C12_ExportErrorRecordsNoClips ==
    [][ /\ (pc \in {"ex_open", "ex_loop", "ex_release"}
              /\ pc' \notin {"ex_open", "ex_loop", "ex_release", "pv_export"}) =>
              /\ results' = Append(results, <<>>)
              /\ outcome'.how = "raised"
              /\ vi' = vi + 1
              /\ pc' = "pav_loop"
        /\ (pc = "pav_loop" /\ pc' # pc /\ outcome.exports > 0
              /\ vi <= NumVideos /\ ~stop_requested) =>
              /\ pc' = "pv_entry"
              /\ vi' = vi
      ]_vars

\* The second export of the first video raised after its first clip had been
\* written, and the loop has started the second video.
C12_Witness ==
    /\ pc = "pv_entry"
    /\ vi = 2
    /\ results = << <<>> >>
    /\ outcome.how = "raised"
    /\ outcome.exports >= 2

\* C13 as stated: export_clip releases the source handle and the output
\* writer on every exit path, so outside export_clip no handle that an
\* export opened is still open.
C13_ExportReleasesHandles ==
    pc \notin {"ex_open", "ex_loop", "ex_release"} =>
        \A h \in handles : h[3] = 0

Scenario == << <<10, 20>>, <<25, 30>> >>

\* C14 as stated: at 10 fps the segments (10,20) and (25,30) become (10,30)
\* with merge_gap_s = 2.0 (20 frames) and stay separate with merge_gap_s = 0.1
\* (1 frame), the gap that is compared with gap_frames being 25-20-1 = 4.
C14_ScenarioGapMeasuredAsFour ==
    (m_pc \in {"merged", "again"} /\ m_ranges = Scenario /\ m_fps = 10) =>
        /\ (m_gap = 20 => (GapFrames = 20 /\ m_out = << <<10, 30>> >>))
        /\ (m_gap = 1 => (GapFrames = 1 /\ m_out = Scenario))
        /\ (m_out = << <<10, 30>> >>) <=> (25 - 20 - 1 <= GapFrames)
        /\ (m_out = Scenario) <=> (25 - 20 - 1 > GapFrames)

\* C14 amended: at 10 fps the segments (10,20) and (25,30) become (10,30)
\* with merge_gap_s = 2.0 (20 frames) and stay separate with merge_gap_s = 0.1
\* (1 frame); the gap that is compared with gap_frames is
\* next.start - prev.end = 25 - 20 = 5, so they also stay separate with
\* gap_frames = 4 and merge from gap_frames = 5 on.
C14_ScenarioGapMeasuredAsFive ==
    (m_pc \in {"merged", "again"} /\ m_ranges = Scenario /\ m_fps = 10) =>
        /\ (m_gap = 20 => (GapFrames = 20 /\ m_out = << <<10, 30>> >>))
        /\ (m_gap = 1 => (GapFrames = 1 /\ m_out = Scenario))
        /\ (m_out = << <<10, 30>> >>) <=> (25 - 20 <= GapFrames)
        /\ (m_out = Scenario) <=> (25 - 20 > GapFrames)

\* The scenario merged at 10 fps with a gap of 0.4 s, i.e. 4 frames.
C14_Witness ==
    /\ m_pc = "merged"
    /\ m_ranges = Scenario
    /\ m_fps = 10
    /\ GapFrames = 4
    /\ m_out = Scenario

\* floor(seconds * fps) for a duration in tenths of a second: the integer n
\* with n <= tenths * fps / 10 < n + 1.
FloorFrames(tenths, rate) ==
    CHOOSE n \in 0 .. tenths * rate :
        10 * n <= tenths * rate /\ tenths * rate < 10 * (n + 1)

\* C15: for every segment, export_clip computes
\* actual_start = max(0, start - floor(padding_before_s * fps)) and
\* actual_end = min(total_frames - 1, end + floor(padding_after_s * fps));
\* segment (10,30) with 2.0 s of padding on each side at 10 fps and more than
\* 50 frames gives the window (0, 50).
C15_PaddedWindow ==
    p_pc = "padded" =>
        LET lo == p_in.seg[1] - FloorFrames(p_in.before, p_in.fps)
            hi == p_in.seg[2] + FloorFrames(p_in.after, p_in.fps)
        IN  /\ p_out.start = (IF lo > 0 THEN lo ELSE 0)
            /\ p_out.end = (IF hi < p_in.total - 1 THEN hi ELSE p_in.total - 1)
            /\ (p_in.seg = <<10, 30>> /\ p_in.fps = 10 /\ p_in.before = 20
                  /\ p_in.after = 20 /\ p_in.total > 50) =>
                    p_out = [start |-> 0, end |-> 50]

\* The (10,30) example with 60 frames in the source.
C15_Witness ==
    /\ p_pc = "padded"
    /\ p_in = [seg |-> <<10, 30>>, fps |-> 10, before |-> 20, after |-> 20,
               total |-> 60]

\* C16: rectangle normalization does not depend on the corner order: the
\* rectangle obtained from (x1,y1,x2,y2) equals the one obtained from
\* (x2,y2,x1,y1), in parse_roi and inside detect_motion, and the result has
\* x1 <= x2 and y1 <= y2; (500,400,100,100) and (100,100,500,400) give the
\* same rectangle.
C16_NormalizationIgnoresCornerOrder ==
    /\ d_pc \in {"parsed", "scored"} =>
          /\ d_parsed.given = d_parsed.reversed
          /\ Len(d_parsed.given) = 4
          /\ d_parsed.given[1] <= d_parsed.given[3]
          /\ d_parsed.given[2] <= d_parsed.given[4]
          /\ {d_parsed.given[1], d_parsed.given[3]} = {d_in.parts[1], d_in.parts[3]}
          /\ {d_parsed.given[2], d_parsed.given[4]} = {d_in.parts[2], d_in.parts[4]}
          /\ d_in.parts \in ExampleParts => d_parsed.given = <<100, 100, 500, 400>>
    /\ d_pc = "scored" =>
          LET n == NormalizeRoi(d_in.parts)
          IN  /\ n = NormalizeRoi(Reversed(d_in.parts))
              /\ n.x1 <= n.x2
              /\ n.y1 <= n.y2
              /\ <<n.x1, n.y1, n.x2, n.y2>> = d_parsed.given
              /\ d_out.given = d_out.reversed

\* A rectangle given with both coordinates in reverse order, scored against a
\* reference, reports motion.
C16_Witness ==
    /\ d_pc = "scored"
    /\ d_in.parts[1] > d_in.parts[3]
    /\ d_in.parts[2] > d_in.parts[4]
    /\ d_out.given.detected

\* The crop detect_motion takes for the call of SpecRoi, when the rectangle
\* is not empty after normalization and clamping.
CallRect == ClampRoi(NormalizeRoi(d_in.parts), FrameW, FrameH)
CallHasCrop == CallRect.x1 < CallRect.x2 /\ CallRect.y1 < CallRect.y2
CallCrop == Crop(d_in.scene, CallRect)

\* C19: whenever no reference exists or the reference's dimensions differ
\* from those of the current crop, detect_motion stores the current crop as
\* the new reference and returns (false, 0.0).
C19_SeedingFrameIsSilent ==
    (d_pc = "scored" /\ CallHasCrop
       /\ (d_in.prev = NoFrame
             \/ <<d_in.prev.h, d_in.prev.w>> # <<CallCrop.h, CallCrop.w>>)) =>
        /\ d_out.given.prev = CallCrop
        /\ ~d_out.given.detected
        /\ d_out.given.num = 0

\* A reference of another shape, whose top left pixel differs from the
\* crop's by more than the threshold, was replaced by the crop.
C19_Witness ==
    /\ d_pc = "scored"
    /\ CallHasCrop
    /\ d_in.prev # NoFrame
    /\ <<d_in.prev.h, d_in.prev.w>> # <<CallCrop.h, CallCrop.w>>
    /\ d_in.prev.px[1][1] - CallCrop.px[1][1] > threshold
    /\ d_out.given.prev = CallCrop

AnalysisPcs == {"an_loop", "an_read", "an_close"}
InVideoPcs  == AnalysisPcs \cup {"pv_after", "pv_export"} \cup ExportPcs

\* C17: in a batch no scorer state is carried from one video to the next:
\* the reference is absent until the first frame of each video is scored, and
\* the reference, the tracker state and the segments of every video equal
\* those of a detector constructed for that video alone.
C17_NoStateAcrossVideos ==
    /\ (pc \in AnalysisPcs /\ nsampled = 0) => previous_frame = NoFrame
    /\ pc \in InVideoPcs =>
          /\ previous_frame = f_prev
          /\ current_motion_start = f_start
          /\ motion_ranges = f_ranges
    /\ pc \in InVideoPcs \ AnalysisPcs =>
          pv_ranges = merge_ranges(f_ranges, fps, merge_gap)

\* The analysis of the second video has returned a segment, the first video
\* having produced a clip and so left a reference in the detector.
C17_Witness ==
    /\ pc = "pv_after"
    /\ vi = 2
    /\ results[1] # <<>>
    /\ pv_ranges # <<>>
    /\ f_prev # NoFrame

\* The source handles (captures) of the video being processed that are open.
OpenSources == {h \in handles : h[1] = "capture" /\ h[2] = vi}

\* C18: for a single video the phases never overlap: while the analysis
\* reads the source no export has started; when an export opens the source
\* the analysis handle has been released and the merge has run; at most one
\* source handle of the video is open at any time.
C18_PhasesNeverOverlap ==
    /\ Cardinality(OpenSources) <= 1
    /\ pc \in AnalysisPcs =>
          /\ OpenSources = {<<"capture", vi, 0>>}
          /\ nexports = 0
          /\ exported_clips = <<>>
    /\ pc \in ExportPcs \cup {"pv_export"} =>
          /\ <<"capture", vi, 0>> \notin handles
          /\ an_exit # "none"
          /\ pv_ranges = merge_ranges(motion_ranges, fps, merge_gap)
          /\ pv_ranges # <<>>
    /\ pc \in {"ex_loop", "ex_release"} => OpenSources = {<<"capture", vi, ci>>}

\* The first export of a video is writing frames: the source is open for this
\* export and for nothing else.
C18_Witness ==
    /\ pc = "ex_loop"
    /\ ci = 1
    /\ frames_written >= 1
    /\ OpenSources = {<<"capture", vi, 1>>}
    /\ <<"writer", vi, 1>> \in handles

\* What C20 says of both phases for the export: the flag is polled once per
\* segment, before its export starts, and never while a clip is written.
PolledOncePerSegment ==
    /\ (pc' = "ex_open" /\ pc # "ex_open") => (pc = "pv_export" /\ ~stop_requested)
    /\ (pc = "pv_export" /\ pc' # pc /\ ci <= Len(pv_ranges) /\ stop_requested) =>
          (pc' = "pav_loop" /\ stop_seen')
    /\ pc \in ExportPcs => stop_seen' = stop_seen

C21_TrackerListIncreasing ==
    /\ \A i \in 1 .. Len(motion_ranges) :
          /\ 0 <= motion_ranges[i][1]
          /\ motion_ranges[i][1] <= motion_ranges[i][2]
    /\ \A i \in 1 .. Len(motion_ranges) - 1 :
          motion_ranges[i + 1][1] > motion_ranges[i][2]
    /\ PairwiseDisjoint(motion_ranges)
    /\ (pc \in AnalysisPcs /\ current_motion_start # NoStart
          /\ motion_ranges # <<>>) =>
          current_motion_start > motion_ranges[Len(motion_ranges)][2]

\* The tracker has emitted one segment and closed a second one, longer than
\* one frame, at the end of the source.
C21_Witness ==
    /\ pc = "pv_after"
    /\ Len(motion_ranges) = 2
    /\ last_emit.how = "end"
    /\ motion_ranges[2][1] < motion_ranges[2][2]

\* C22: during the export of a video with N merged segments exactly one
\* progress emission is made per exported clip, before the clip is written,
\* labelled with the clip's position i of N, for i = 1 .. N in ascending order.
C22_OneEmissionPerClip ==
    [][ /\ (pc' = "ex_open" /\ pc # "ex_open") =>
              /\ pc = "pv_export"
              /\ ci = Len(exported_clips) + 1
              /\ progress'[1] = "clip"
              /\ progress'[3] = ci
              /\ progress'[4] = Len(pv_ranges)
              /\ (ci = 1 => progress[1] # "clip")
              /\ (ci > 1 => (progress[1] = "clip" /\ progress[3] = ci - 1
                              /\ progress[4] = Len(pv_ranges)))
        /\ (progress'[1] = "clip" /\ progress' # progress) =>
              (pc = "pv_export" /\ pc' = "ex_open")
        /\ pc \in ExportPcs => progress' = progress
        /\ (pc = "ex_release" /\ pc' # pc) =>
              (progress[1] = "clip" /\ progress[3] = Len(exported_clips'))
      ]_vars

\* The emission for the second of two clips has been made and the clip is
\* about to be written, the first clip being complete.
C22_Witness ==
    /\ pc = "ex_open"
    /\ progress[1] = "clip"
    /\ progress[3] = 2
    /\ progress[4] = 2
    /\ Len(exported_clips) = 1

\* The reference greedy sweep.  SortingOrders(l) are the orders of the
\* indices of l that sort it by start; RefSweep carries the current segment
\* and the segments already flushed.
SortingOrders(l) ==
    {p \in [1 .. Len(l) -> 1 .. Len(l)] :
        /\ \A i, j \in 1 .. Len(l) : i # j => p[i] # p[j]
        /\ \A i \in 1 .. Len(l) - 1 : l[p[i]][1] <= l[p[i + 1]][1]}

RECURSIVE RefSweep(_, _, _, _, _)
RefSweep(sorted, i, current, flushed, g) ==
    IF i > Len(sorted) THEN Append(flushed, current)
    ELSE IF sorted[i][1] - current[2] <= g
         THEN RefSweep(sorted, i + 1,
                       <<current[1], IF current[2] >= sorted[i][2]
                                     THEN current[2] ELSE sorted[i][2]>>,
                       flushed, g)
         ELSE RefSweep(sorted, i + 1, sorted[i], Append(flushed, current), g)

RefMerge(l, p, g) ==
    IF l = <<>> THEN <<>>
    ELSE LET sorted == [i \in 1 .. Len(l) |-> l[p[i]]]
         IN  RefSweep(sorted, 2, sorted[1], <<>>, g)

\* C23: _merge_ranges equals the reference greedy sweep on every input list,
\* the empty list, unsorted lists and lists with nested or overlapping
\* segments included: after sorting by start (in any order of equal starts),
\* a segment with next.start - current.end <= floor(gap_seconds * fps) extends
\* current.end to max(current.end, next.end), otherwise current is flushed
\* and next starts a new segment.
C23_MergeEqualsReferenceSweep ==
    m_pc \in {"merged", "again"} =>
        /\ SortingOrders(m_ranges) # {}
        /\ \A p \in SortingOrders(m_ranges) :
              m_out = RefMerge(m_ranges, p, FloorFrames(m_gap, m_fps))
        /\ m_ranges = <<>> => m_out = <<>>

\* An unsorted list of three segments, one nested in an earlier one, merged
\* into two segments.
C23_Witness ==
    /\ m_pc = "merged"
    /\ Len(m_ranges) = 3
    /\ ~SortedByStart(m_ranges)
    /\ \E i, j \in 1 .. 3 :
          /\ i < j
          /\ m_ranges[i][1] < m_ranges[j][1]
          /\ m_ranges[j][2] < m_ranges[i][2]
    /\ Len(m_out) = 2

\* C24: a source frame whose index is not a multiple of frame_skip is not
\* scored and changes neither the reference nor the tracker state; a segment
\* is opened only on a sampled frame that reports motion, with open_start
\* equal to that frame's source index.
C24_SkippedFramesChangeNothing ==
    [][ /\ (frame_count' = frame_count + 1 /\ frame_count % frame_skip # 0) =>
              /\ previous_frame' = previous_frame
              /\ sample' = sample
              /\ nsampled' = nsampled
              /\ current_motion_start' = current_motion_start
              /\ motion_ranges' = motion_ranges
        /\ (nsampled' = nsampled + 1) => frame_count % frame_skip = 0
        /\ (current_motion_start = NoStart /\ current_motion_start' # NoStart) =>
              /\ frame_count % frame_skip = 0
              /\ frame_count' = frame_count + 1
              /\ current_motion_start' = frame_count
              /\ sample'.detected
      ]_vars

\* With every second frame sampled, frame 3 was read and skipped while the
\* segment opened at frame 2 was open.
C24_Witness ==
    /\ pc = "an_loop"
    /\ frame_skip = 2
    /\ frame_count = 4
    /\ current_motion_start = 2
    /\ nsampled = 2

\* C25: after every scored frame with a rectangle that is not degenerate
\* the stored reference equals that frame's crop, whether the frame seeded
\* the reference, reported motion or reported none.
C25_ReferenceIsLastCrop ==
    (d_pc = "scored" /\ CallHasCrop) => d_out.given.prev = CallCrop

\* A frame scored against a reference of its own shape reported no motion
\* although its crop differs from the reference, and replaced the reference.
C25_Witness ==
    /\ d_pc = "scored"
    /\ CallHasCrop
    /\ d_in.prev # NoFrame
    /\ <<d_in.prev.h, d_in.prev.w>> = <<CallCrop.h, CallCrop.w>>
    /\ d_in.prev # CallCrop
    /\ ~d_out.given.detected
    /\ d_out.given.num > 0
    /\ d_out.given.prev = CallCrop

\* C26: a stop request that arrives while a clip is being written does not
\* truncate the clip: export_clip never polls the flag, its write loop ends
\* only when the frame range is written or the source is exhausted, the clip
\* is appended to the list, and the poll before the next segment returns the
\* list with it, skipping only the clips that follow.
C26_StopDoesNotTruncateClip ==
    [][ /\ pc \in ExportPcs => stop_seen' = stop_seen
        /\ (pc = "ex_loop" /\ pc' = "ex_release") =>
              (frames_written >= frames_to_write \/ frames_written >= avail)
        /\ (pc = "ex_release" /\ pc' # pc) =>
              /\ pc' = "pv_export"
              /\ exported_clips' =
                     Append(exported_clips, <<vi, actual_start, actual_end>>)
        /\ (pc = "pv_export" /\ pc' # pc /\ stop_requested
              /\ ci <= Len(pv_ranges)) =>
              /\ Len(exported_clips) = ci - 1
              /\ results' = Append(results, exported_clips)
              /\ outcome'.how = "returned"
              /\ outcome'.exports = ci - 1
      ]_vars

\* A request made after the poll for this clip found the clip written to its
\* full range of at least two frames, with a further segment left.
C26_Witness ==
    /\ pc = "ex_release"
    /\ stop_requested
    /\ ~stop_seen
    /\ frames_written = frames_to_write
    /\ frames_written >= 2
    /\ ci < Len(pv_ranges)

\* C27: in a run of process_video with no stop request and no error,
\* export_clip is called exactly once per merged segment, in ascending
\* segment order, and the returned list has as many paths as there are
\* merged segments.
C27_OneExportPerSegment ==
    /\ pc \in ExportPcs \cup {"pv_export"} =>
          /\ Len(exported_clips) = ci - 1
          /\ nexports = (IF pc = "pv_export" THEN ci - 1 ELSE ci)
          /\ ci <= Len(pv_ranges) + 1
          /\ \A k \in 1 .. Len(exported_clips) :
                exported_clips[k] =
                    <<vi, PaddedStart(pv_ranges[k][1], padding_before, fps),
                      PaddedEnd(pv_ranges[k][2], padding_after, fps, total_frames)>>
    /\ (outcome.how = "returned" /\ ~stop_requested) =>
          /\ outcome.exports = outcome.ranges
          /\ Len(results[Len(results)]) = outcome.ranges

\* A video with two merged segments was processed to its end without a stop
\* request and returned two clips.
C27_Witness ==
    /\ outcome.how = "returned"
    /\ ~stop_requested
    /\ outcome.ranges = 2
    /\ outcome.exports = 2
    /\ Len(results[Len(results)]) = 2

\* The rearrangements of the indices 1 .. n.
IndexPermutations(n) ==
    {p \in [1 .. n -> 1 .. n] : \A i, j \in 1 .. n : i # j => p[i] # p[j]}

\* C28: the result of _merge_ranges does not depend on the order of its
\* input: every permutation of a segment list, lists with several segments of
\* equal start included, gives the same merged list.
C28_MergeIgnoresInputOrder ==
    m_pc \in {"merged", "again"} =>
        \A p \in IndexPermutations(Len(m_ranges)) :
            merge_ranges([i \in 1 .. Len(m_ranges) |-> m_ranges[p[i]]],
                         m_fps, m_gap) = m_out

\* A merged list of three segments that was not sorted and had two segments
\* of equal start, the longer one first.
C28_Witness ==
    /\ m_pc = "merged"
    /\ Len(m_ranges) = 3
    /\ ~SortedByStart(m_ranges)
    /\ \E i, j \in 1 .. 3 :
          /\ i < j
          /\ m_ranges[i][1] = m_ranges[j][1]
          /\ m_ranges[i][2] > m_ranges[j][2]
    /\ Len(m_out) = 2

\* The output segments that contain the segment seg.
Containers(out, seg) ==
    {k \in 1 .. Len(out) : out[k][1] <= seg[1] /\ seg[2] <= out[k][2]}

\* C29: _merge_ranges loses and invents no boundary: every input segment is
\* contained in exactly one output segment, every output start is the start
\* of some input segment and every output end is the end of some input
\* segment.
C29_MergeKeepsBoundaries ==
    m_pc \in {"merged", "again"} =>
        /\ \A i \in 1 .. Len(m_ranges) :
              Cardinality(Containers(m_out, m_ranges[i])) = 1
        /\ \A k \in 1 .. Len(m_out) :
              /\ \E i \in 1 .. Len(m_ranges) : m_out[k][1] = m_ranges[i][1]
              /\ \E i \in 1 .. Len(m_ranges) : m_out[k][2] = m_ranges[i][2]

\* Three segments merged into two, one of which is none of the input
\* segments: its start and its end come from different segments.
C29_Witness ==
    /\ m_pc = "merged"
    /\ Len(m_ranges) = 3
    /\ Len(m_out) = 2
    /\ \E k \in 1 .. 2 : \A i \in 1 .. 3 : m_out[k] # m_ranges[i]

\* The source frames of the export window of a clip, and the windows of the
\* clips of the video exported so far, that of the export in progress
\* included.
Window(clip) == clip[2] .. clip[3]
WindowsSoFar ==
    IF pc \in {"ex_loop", "ex_release"}
    THEN Append(exported_clips, <<vi, actual_start, actual_end>>)
    ELSE exported_clips

C30_OverlapWhenGapSmaller ==
    /\ merge_gap < padding_before + padding_after
    /\ Len(exported_clips) = 2
    /\ Window(exported_clips[1]) \cap Window(exported_clips[2]) # {}

\* C31: the paths returned by one process_video call are pairwise distinct.
C31_PathsPairwiseDistinct ==
    \A i, j \in 1 .. Len(n_paths) : i < j => n_paths[i] # n_paths[j]

\* Two clips of one call with the same path although their windows differ:
\* the names agree after rounding to one decimal.
C31_RoundedNamesCollide ==
    /\ n_pc = "returned"
    /\ Len(n_paths) = 2
    /\ n_paths[1] = n_paths[2]
    /\ n_in.before = 0 /\ n_in.after = 0 /\ n_in.total = 40

\* C32: every emission of a process_video call has a numerator within
\* 0 .. 100, within 0 .. 50 during analysis and within 50 .. 100 during
\* export.
C32_NumeratorsWithinBounds ==
    /\ progress[1] \in {"analyzing", "frame", "clip", "no_motion", "exported"} =>
           progress[2] \in 0 .. 100
    /\ progress[1] \in {"analyzing", "frame"} => progress[2] \in 0 .. 50
    /\ progress[1] \in {"clip", "exported"} => progress[2] \in 50 .. 100

\* The numerators of one call never decrease.
C32_NumeratorsNeverDecrease ==
    [][(/\ progress[1] \in {"analyzing", "frame", "clip"}
        /\ progress'[1] \in {"frame", "clip", "no_motion", "exported"})
           => progress'[2] >= progress[2]]_vars

\* C33: a frame the source delivers to the analysis loop never makes
\* process_video raise, whatever frame count the source reports.
C33_AnalysisNeverRaises ==
    [][pc = "an_read" => outcome'.how # "raised"]_vars

\* C34: once set, the stop flag stays set; a process_video call entered
\* with the flag set returns an empty list without opening the source,
\* exporting or emitting progress; the loop of process_all_videos then ends
\* without starting another video.
C34_StopFlagIsSticky ==
    [][stop_requested =>
          /\ stop_requested'
          /\ pc = "pv_entry" =>
                 /\ pc' = "pav_loop"
                 /\ results' = Append(results, <<>>)
                 /\ handles' = handles
                 /\ progress' = progress
                 /\ outcome'.how = "returned"
                 /\ outcome'.frames = 0
                 /\ outcome'.exports = 0
          /\ pc = "pav_loop" =>
                 /\ pc' = "pav_done"
                 /\ results' = results
                 /\ vi' = vi
                 /\ handles' = handles
                 /\ progress' = progress]_vars

\* The stop was requested between the check of line 273 and the entry of
\* process_video for the first video: the call returned [] with the
\* "Processing video 1/2" emission of process_all_videos still the last one,
\* and the loop ended before the second video.
C34_Witness ==
    /\ pc = "pav_done"
    /\ stop_requested
    /\ results = << <<>> >>
    /\ vi = 2
    /\ progress = <<"video", 0, 1, NumVideos>>
    /\ outcome.how = "returned"
    /\ handles = {}

\* C35: after request_stop a running process_all_videos returns.  On the
\* way it starts no iteration of the analysis loop (a frame is read only
\* between the check of line 204 and the next one, so at most one more is
\* read), starts no export_clip call and starts no video.
C35_StopLeadsToReturn ==
    /\ stop_requested ~> pc = "pav_done"
    /\ [][/\ src_pos' > src_pos => pc = "an_read" /\ pc' = "an_loop"
          /\ stop_requested /\ pc = "an_loop" =>
                 pc' = "an_close" /\ src_pos' = src_pos
          /\ stop_requested /\ pc \in {"pv_entry", "pv_after", "pv_export"} =>
                 pc' = "pav_loop" /\ outcome'.exports = nexports
          /\ stop_requested /\ pc = "pav_loop" =>
                 pc' = "pav_done" /\ vi' = vi]_vars

\* The request arrived while the second frame of the first video was being
\* analysed: the loop ended at its next check and the batch returned with
\* the second video not started.
C35_Witness ==
    /\ pc = "pav_done"
    /\ stop_requested
    /\ stop_seen
    /\ Len(results) = 1
    /\ outcome.how = "returned"
    /\ outcome.frames = 2

\* C36: when the worker thread of a run has ended, it has posted exactly
\* one terminal notification and, after it, the UI reset as its last call.
C36_OneTerminalNotification ==
    g_pc = "done" =>
        /\ Cardinality({i \in 1 .. Len(g_posted) : g_posted[i] \in Terminal}) = 1
        /\ g_posted[Len(g_posted)] = "reset"
        /\ Len(g_posted) >= 2
        /\ g_posted[Len(g_posted) - 1] \in Terminal

\* Apart from the run in which the worker saw self.processing cleared and
\* the stop flag not yet set, every run ends as C36 says.
C36_OnlyTheRaceLosesTheNotification ==
    g_pc = "done" =>
        \/ C36_OneTerminalNotification
        \/ /\ g_user \in {"cleared", "requested"}
           /\ ~g_was_stopped
           /\ g_posted[Len(g_posted)] = "reset"
           /\ \A i \in 1 .. Len(g_posted) : g_posted[i] \notin Terminal

=============================================================================
